---------------------------- MODULE Spec2Model ----------------------------
(***************************************************************************)
(* Model of the scenario-based abstraction pipeline (DynAbs):              *)
(*   - Abstraction.define_actions / _composeEnabledActions                 *)
(*   - scenarioBasedAbstraction._computeProbabilityBounds (clustering)     *)
(*   - computeScenarioBounds_error (interval mode)                         *)
(*   - computeScenarioBounds_sparse (exact mode)                           *)
(*   - floor_decimal                                                       *)
(*                                                                         *)
(* Real numbers are kept exactly as integer numerators over the common     *)
(* denominator One (= 2 * Nsamples * 10^6), so that count / Nsamples,      *)
(* the mean of two counts over Nsamples, six-decimal table entries and     *)
(* the half unit of the fifth decimal are all integers.  np.round is the   *)
(* documented round-half-to-even, computed exactly: the binary floating    *)
(* point of the program can land one unit of the last decimal away from    *)
(* this for values that sit exactly on a rounding tie.                     *)
(***************************************************************************)
EXTENDS Integers, Sequences, FiniteSets, TLC

(***************************************************************************)
(* Bounds of the model                                                     *)
(***************************************************************************)
\* number of noise samples (args.noise_samples / setup.sampling['samples'])
Nsamples == 3
\* how many times define_actions is run in one behaviour
MaxRuns == 2
\* time steps of the horizon (self.N)
Horizon == 2

(***************************************************************************)
(* Program constants                                                       *)
(***************************************************************************)
nr_decimals == 5
\* Pmin = 1e-4, in units of 10^-6
PminMicro == 100

(***************************************************************************)
(* Fixed-point arithmetic                                                  *)
(***************************************************************************)
Micro == 10^6
Unit  == 2 * Nsamples
One   == Micro * Unit
\* one unit of the last kept decimal (10^-nr_decimals)
Step  == One \div (10^nr_decimals)

FromMicro(v) == v * Unit
Max2(a, b) == IF a >= b THEN a ELSE b
Min2(a, b) == IF a <= b THEN a ELSE b

\* nearest integer to n/d, ties to the even integer (numpy rint)
RoundHalfEven(n, d) ==
    LET q == n \div d
        r == n % d
    IN  IF 2 * r < d THEN q
        ELSE IF 2 * r > d THEN q + 1
        ELSE IF q % 2 = 0 THEN q ELSE q + 1

\* np.round(x, nr_decimals)
np_round(x) == RoundHalfEven(x, Step) * Step

\* commons.floor_decimal(a, 5) = np.round(a - 0.5 * 10**(-5), 5)
floor_decimal(a) == np_round(a - (Step \div 2))

\* integer square root (largest r with r*r <= x), by bisection
RECURSIVE ISqrtBetween(_, _, _)
ISqrtBetween(x, lo, hi) ==
    IF lo >= hi THEN lo
    ELSE LET mid == (lo + hi + 1) \div 2
         IN  IF mid * mid <= x THEN ISqrtBetween(x, mid, hi)
             ELSE ISqrtBetween(x, lo, mid - 1)
ISqrt(x) == ISqrtBetween(x, 0, 40000)

\* confidence levels beta offered to the model, in units of 10^-6
Confidences == {500000}
\* ln(2 / beta) in units of 10^-4 (tabulated natural logarithms)
LnTwoOver(beta) == IF beta = 10000 THEN 52983 ELSE 13863

\* epsilon = sqrt( 1/(2*Nsamples) * log(2/confidence) ), as a numerator
\* over One, truncated to 10^-4
epsilon_of(beta) ==
    FromMicro(100 * ISqrt((LnTwoOver(beta) * 10000) \div (2 * Nsamples)))

\* a sequence given as a function, with its elements computed
Force(q) == q \o << >>

(***************************************************************************)
(* Partition (spec.partition, partition['R'])                              *)
(***************************************************************************)
\* spec.partition['number'], ['width'], ['origin']
PartitionNumber == <<2, 2>>
PartitionWidth  == <<2, 2>>
PartitionOrigin == <<0, 0>>
Dim  == Len(PartitionNumber)
Dims == 1..Dim

Tup(f) == [d \in Dims |-> f[d]]
VecAdd(a, b) == Force([d \in Dims |-> a[d] + b[d]])

RECURSIVE ProdTo(_)
ProdTo(d) == IF d = 0 THEN 1 ELSE ProdTo(d - 1) * PartitionNumber[d]
nr_regions == ProdTo(Dim)
Regions == 0..(nr_regions - 1)

RECURSIVE MaxNumberTo(_)
MaxNumberTo(d) == IF d = 0 THEN 1 ELSE Max2(MaxNumberTo(d - 1), PartitionNumber[d])

\* all grid-tuples of the partition
IdxTuples ==
    {t \in [Dims -> 0..(MaxNumberTo(Dim) - 1)] :
        \A d \in Dims : t[d] < PartitionNumber[d]}

\* partition['R']['idx'] : grid-tuple -> region index (row-major order)
RECURSIVE RowMajor(_, _)
RowMajor(t, d) ==
    IF d = 0 THEN 0 ELSE RowMajor(t, d - 1) * PartitionNumber[d] + t[d]
R_idx(t) == RowMajor(t, Dim)
\* inverse of R_idx
R_tup(s) == CHOOSE t \in IdxTuples : R_idx(t) = s

\* region centre of a grid-tuple (partition['R']['center'])
R_center(t) ==
    [d \in Dims |-> PartitionOrigin[d]
                    - ((PartitionWidth[d] * PartitionNumber[d]) \div 2)
                    + t[d] * PartitionWidth[d] + (PartitionWidth[d] \div 2)]

\* define_partition.computeRegionIdx: raw grid indices of a point
pointsZero(p) ==
    [d \in Dims |-> p[d] - PartitionOrigin[d]
                    + ((PartitionWidth[d] * PartitionNumber[d]) \div 2)]
computeRegionIdx(p, borderOutside) ==
    LET pz == pointsZero(p)
    IN  Force([d \in Dims |->
            (pz[d] \div PartitionWidth[d])
            - (IF borderOutside /\ pz[d] % PartitionWidth[d] = 0 THEN 1 ELSE 0)])
\* second return value of computeRegionIdx: indices clipped to the grid
indices_nonneg(i) ==
    [d \in Dims |-> Min2(Max2(0, i[d]), PartitionNumber[d] - 1)]

\* define_partition.computeRegionCenters: centre of the cell holding p
computeRegionCenters(p) ==
    LET i == computeRegionIdx(p, FALSE) IN R_center(i)
\* partition['R']['c_tuple'] : centre -> region index
c_tuple_has(c) == \E t \in IdxTuples : R_center(t) = c
c_tuple(c) == R_idx(CHOOSE t \in IdxTuples : R_center(t) = c)

\* goal_idx / critical_idx: the grid-tuples of a set of regions
idx_of(regs) == {t \in IdxTuples : R_idx(t) \in regs}

(***************************************************************************)
(* Small helpers on sequences                                              *)
(***************************************************************************)
RECURSIVE SeqSum(_)
SeqSum(q) == IF q = <<>> THEN 0 ELSE Head(q) + SeqSum(Tail(q))

\* sum of F(i) over i = 1..n
RECURSIVE SumOver(_, _)
SumOver(F(_), n) == IF n = 0 THEN 0 ELSE F(n) + SumOver(F, n - 1)

\* the indices i of 1..n with P(i), in increasing order
RECURSIVE Where(_, _)
Where(P(_), n) ==
    IF n = 0 THEN <<>>
    ELSE IF P(n) THEN Append(Where(P, n - 1), n) ELSE Where(P, n - 1)

(***************************************************************************)
(* Scenario table (trans['memory']): row k = <<lower, upper>>, k = 0..N    *)
(***************************************************************************)
\* numpy indexing of the (N+1) x 2 array: negative indices wrap around,
\* anything else out of range raises IndexError (modelled by a marked row)
IndexError == <<-One, -One>>
memory_row(memory, k) ==
    IF k \in 0..Nsamples THEN memory[k]
    ELSE IF k < 0 /\ k >= -(Nsamples + 1) THEN memory[k + Nsamples + 1]
    ELSE IndexError

(***************************************************************************)
(* computeScenarioBounds_error (interval mode).                            *)
(* A is the record of its arguments:                                       *)
(*   clusters (sequence of [value, lb, ub]), error ([neg, pos]),           *)
(*   goal_idx, critical_idx (sets of grid-tuples), memory, epsilon.        *)
(***************************************************************************)
\* lines 183-185: raw grid indices of the lower and upper corner of the
\* error-inflated box of cluster c
imin(A, c) == computeRegionIdx(VecAdd(A.clusters[c].lb, A.error.neg), FALSE)
imax(A, c) == computeRegionIdx(VecAdd(A.clusters[c].ub, A.error.pos), TRUE)

\* The engine's working data E: the arguments with the index vectors of all
\* clusters computed once (lines 183-185), and c_rem (lines 238-241).
indexed_base(A) ==
    [ value        |-> Force([c \in 1..Len(A.clusters) |-> A.clusters[c].value]),
      imin         |-> Force([c \in 1..Len(A.clusters) |-> imin(A, c)]),
      imax         |-> Force([c \in 1..Len(A.clusters) |-> imax(A, c)]),
      goal_idx     |-> A.goal_idx,
      critical_idx |-> A.critical_idx,
      memory       |-> A.memory,
      epsilon      |-> A.epsilon ]

nr_clusters(E) == Len(E.value)
iMin(E, c) == indices_nonneg(E.imin[c])
iMax(E, c) == indices_nonneg(E.imax[c])

\* a variant of the line below with .all(axis=1) for .any(axis=1)
fully_out_all(E, c) ==
    \/ \A d \in Dims : E.imax[c][d] < 0
    \/ \A d \in Dims : E.imin[c][d] > PartitionNumber[d] - 1

fully_out(E, c) ==
    \/ \E d \in Dims : E.imax[c][d] < 0
    \/ \E d \in Dims : E.imin[c][d] > PartitionNumber[d] - 1

partially_out(E, c) ==
    \/ \E d \in Dims : E.imin[c][d] < 0
    \/ \E d \in Dims : E.imax[c][d] > PartitionNumber[d] - 1

counts_absorb_low(E) ==
    LET F(c) == IF fully_out(E, c) THEN E.value[c] ELSE 0
    IN  SumOver(F, nr_clusters(E))

\* a variant of the definition below that adds the clusters fully outside
\* to the clusters partially outside
counts_absorb_upp_both(E) ==
    LET F(c) == (IF partially_out(E, c) THEN E.value[c] ELSE 0)
                + (IF fully_out(E, c) THEN E.value[c] ELSE 0)
    IN  SumOver(F, nr_clusters(E))

counts_absorb_upp(E) ==
    LET F(c) == IF partially_out(E, c) THEN E.value[c] ELSE 0
    IN  SumOver(F, nr_clusters(E))

in_single_region(E, c) ==
    (\A d \in Dims : E.imin[c][d] = E.imax[c][d]) /\ ~fully_out(E, c)

keep(E, c) == ~in_single_region(E, c) /\ ~fully_out(E, c)

\* c_rem: the clusters kept for the second loop, in order
c_rem(E) == LET P(c) == keep(E, c) IN Where(P, nr_clusters(E))

indexed(A) == [c_rem |-> c_rem(indexed_base(A))] @@ indexed_base(A)

\* set(itertools.product(*map(range, iMin_rem[x], iMax_rem[x]+1)))
tuples_between(lo, hi) ==
    {t \in IdxTuples : \A d \in Dims : lo[d] <= t[d] /\ t[d] <= hi[d]}
index_tuples(E, c) == tuples_between(iMin(E, c), iMax(E, c))

\* the flag read at `not partially_out[x]`: x is the position in c_rem,
\* used as an index into the array over all clusters
partially_out_at(E, x, c) == partially_out(E, x)

\* the branch of the second loop taken at position x of c_rem
\*   "goal": all touched regions are goal regions
\*   "critical": all touched regions are critical regions
\*   "else": neither
branch_of(E, tuples, inside) ==
    IF tuples \subseteq E.goal_idx /\ inside THEN "goal"
    ELSE IF tuples \subseteq E.critical_idx /\ inside THEN "critical"
    ELSE "else"
branch(E, x) ==
    branch_of(E, index_tuples(E, E.c_rem[x]), ~partially_out_at(E, x, E.c_rem[x]))

part_goal(E, x) ==
    branch(E, x) = "else" /\ index_tuples(E, E.c_rem[x]) \cap E.goal_idx # {}
part_critical(E, x) ==
    branch(E, x) = "else" /\ index_tuples(E, E.c_rem[x]) \cap E.critical_idx # {}

\* the branch of the first loop taken by a cluster in a single region
single_goal(E, c) == in_single_region(E, c) /\ E.imin[c] \in E.goal_idx
single_critical(E, c) ==
    in_single_region(E, c) /\ E.imin[c] \notin E.goal_idx
                           /\ E.imin[c] \in E.critical_idx
single_plain(E, c, t) ==
    in_single_region(E, c) /\ E.imin[c] = t
                           /\ t \notin E.goal_idx /\ t \notin E.critical_idx

counts_goal_low(E) ==
    LET F(c) == IF single_goal(E, c) THEN E.value[c] ELSE 0
        G(x) == IF branch(E, x) = "goal" THEN E.value[E.c_rem[x]] ELSE 0
    IN  SumOver(F, nr_clusters(E)) + SumOver(G, Len(E.c_rem))

counts_goal_upp(E) ==
    LET G(x) == IF part_goal(E, x) THEN E.value[E.c_rem[x]] ELSE 0
    IN  counts_goal_low(E) + SumOver(G, Len(E.c_rem))

counts_critical_low(E) ==
    LET F(c) == IF single_critical(E, c) THEN E.value[c] ELSE 0
        G(x) == IF branch(E, x) = "critical" THEN E.value[E.c_rem[x]] ELSE 0
    IN  SumOver(F, nr_clusters(E)) + SumOver(G, Len(E.c_rem))

counts_critical_upp(E) ==
    LET G(x) == IF part_critical(E, x) THEN E.value[E.c_rem[x]] ELSE 0
    IN  counts_critical_low(E) + SumOver(G, Len(E.c_rem))

\* a variant of the lines below that also counts, in the lower count, the
\* clusters of the second loop that reach the region
counts_low_reached(E, t) ==
    LET F(c) == IF single_plain(E, c, t) THEN E.value[c] ELSE 0
        G(x) == IF t \in index_tuples(E, E.c_rem[x])
                   /\ t \notin E.goal_idx /\ t \notin E.critical_idx
                THEN E.value[E.c_rem[x]] ELSE 0
    IN  SumOver(F, nr_clusters(E)) + SumOver(G, Len(E.c_rem))

counts_low(E, t) ==
    LET F(c) == IF single_plain(E, c, t) THEN E.value[c] ELSE 0
    IN  SumOver(F, nr_clusters(E))

counts_upp(E, t) ==
    LET G(x) == IF t \in index_tuples(E, E.c_rem[x]) THEN E.value[E.c_rem[x]] ELSE 0
    IN  counts_low(E, t) + SumOver(G, Len(E.c_rem))

\* rows <<successor, lower count, upper count>> of the ordinary regions:
\* those with a positive upper count that are neither goal nor critical
add_row(rest, E, s, t, cu) ==
    IF cu > 0 /\ t \notin E.goal_idx /\ t \notin E.critical_idx
    THEN Append(rest, <<s, counts_low(E, t), cu>>)
    ELSE rest
RECURSIVE counts_nonzero_to(_, _)
counts_nonzero_to(E, n) ==
    IF n = 0 THEN <<>>
    ELSE add_row(counts_nonzero_to(E, n - 1), E, n - 1, R_tup(n - 1),
                 counts_upp(E, R_tup(n - 1)))
counts_nonzero(E) == counts_nonzero_to(E, nr_regions)

counts_header(E) ==
    (IF E.critical_idx # {}
        THEN << <<-2, counts_critical_low(E), counts_critical_upp(E)>> >>
        ELSE <<>>)
    \o
    (IF E.goal_idx # {}
        THEN << <<-1, counts_goal_low(E), counts_goal_upp(E)>> >>
        ELSE <<>>)

counts(E) == counts_header(E) \o counts_nonzero(E)

\* count / Nsamples and mean(low, upp) / Nsamples as numerators over One
CountOverN(c) == c * 2 * Micro
MeanOverN(lo, up) == (lo + up) * Micro

deadlock_low_error(E) ==
    Max2(0, CountOverN(counts_absorb_low(E)) - E.epsilon)
deadlock_upp_error(E) ==
    One - memory_row(E.memory, counts_absorb_upp(E))[1]

discard_upp(row) == Min2(Nsamples - row[2], Nsamples)
probability_low_error(E, row) == memory_row(E.memory, discard_upp(row))[1]
probability_upp_error(E, row) == Min2(One, CountOverN(row[3]) + E.epsilon)
probability_approx_error(row) == np_round(MeanOverN(row[2], row[3]))

probs_lb_error(E, row) ==
    Max2(FromMicro(PminMicro), floor_decimal(probability_low_error(E, row)))
probs_ub_error(E, row) ==
    Min2(One, floor_decimal(probability_upp_error(E, row)))

\* a variant of the line below that reports a negative residue as zero
deadlock_approx_clamped(approx) == Max2(0, np_round(One - SeqSum(approx)))

\* deadlock_approx = np.round(1 - sum(probability_approx), nr_decimals)
deadlock_approx_of(approx) == np_round(One - SeqSum(approx))

\* returnDict of computeScenarioBounds_error, from the rows cs of `counts`;
\* the strings are kept as the numbers they print
returnDict_error(E, cs) ==
    [ successor_idxs   |-> Force([i \in 1..Len(cs) |-> cs[i][1]]),
      interval_strings |-> Force([i \in 1..Len(cs) |->
                              <<probs_lb_error(E, cs[i]), probs_ub_error(E, cs[i])>>]),
      approx_strings   |-> Force([i \in 1..Len(cs) |-> probability_approx_error(cs[i])]),
      deadlock_interval_string |->
          << Max2(FromMicro(PminMicro), floor_decimal(deadlock_low_error(E))),
             Min2(One, floor_decimal(deadlock_upp_error(E))) >>,
      deadlock_approx  |->
          deadlock_approx_of([i \in 1..Len(cs) |-> probability_approx_error(cs[i])]) ]

scenario_bounds_of(E) == returnDict_error(E, counts(E))
computeScenarioBounds_error(A) == scenario_bounds_of(indexed(A))

(***************************************************************************)
(* computeScenarioBounds_sparse (exact mode).                              *)
(* smp is the sequence of the Nsamples sample points, memory the table.    *)
(***************************************************************************)
\* the region whose centre is the centre of the cell holding the point, or
\* -1 when that centre is no key of partition['R']['c_tuple']
region_of_center(c) == IF c_tuple_has(c) THEN c_tuple(c) ELSE -1
sample_regions(smp) ==
    Force([s \in 1..Nsamples |-> region_of_center(computeRegionCenters(smp[s]))])

\* counts[r]: number of samples in region r
counts_sparse(regs, r) ==
    LET F(s) == IF regs[s] = r THEN 1 ELSE 0 IN SumOver(F, Nsamples)

\* the keys of the dict `counts`, in insertion order
add_key(rest, r) ==
    IF r = -1 \/ \E i \in 1..Len(rest) : rest[i] = r THEN rest ELSE Append(rest, r)
RECURSIVE counts_keys_to(_, _)
counts_keys_to(regs, n) ==
    IF n = 0 THEN <<>> ELSE add_key(counts_keys_to(regs, n - 1), regs[n])
counts_keys(regs) == counts_keys_to(regs, Nsamples)

\* the values of the dict `counts`, in the order of its keys
counts_values(regs, ks) == Force([i \in 1..Len(ks) |-> counts_sparse(regs, ks[i])])

\* k = Nsamples - sum(counts.values())
absorbed_sparse(cv) == Nsamples - SeqSum(cv)

deadlock_low_sparse(memory, k) == One - memory_row(memory, k)[2]
deadlock_upp_sparse(memory, k) ==
    IF k > Nsamples THEN One ELSE One - memory_row(memory, k)[1]

probability_low_sparse(memory, count) ==
    IF Nsamples - count > Nsamples THEN 0
    ELSE memory_row(memory, Nsamples - count)[1]
\* a variant of the line below that reads the row with key `count`
probability_upp_sparse_bycount(memory, count) == memory_row(memory, count)[2]
probability_upp_sparse(memory, count) == memory_row(memory, Nsamples - count)[2]
probability_approx_sparse(count) == np_round(CountOverN(count))

\* "[" + str(floor_decimal(max(1e-4, lb),5)) + "," +
\*       str(floor_decimal(min(1, ub),5)) + "]"
\* with lb, ub the floored bounds probs_lb, probs_ub
interval_string_sparse(low, upp) ==
    << floor_decimal(Max2(FromMicro(PminMicro), floor_decimal(low))),
       floor_decimal(Min2(One, floor_decimal(upp))) >>

\* returnDict of computeScenarioBounds_sparse, from the keys ks and the
\* values cv of `counts`
returnDict_sparse(memory, ks, cv) ==
    [ successor_idxs   |-> ks,
      interval_strings |-> Force([i \in 1..Len(ks) |->
          interval_string_sparse(probability_low_sparse(memory, cv[i]),
                                 probability_upp_sparse(memory, cv[i]))]),
      approx_strings   |-> Force([i \in 1..Len(ks) |-> probability_approx_sparse(cv[i])]),
      deadlock_interval_string |->
          interval_string_sparse(deadlock_low_sparse(memory, absorbed_sparse(cv)),
                                 deadlock_upp_sparse(memory, absorbed_sparse(cv))),
      deadlock_approx  |->
          deadlock_approx_of([i \in 1..Len(ks) |-> probability_approx_sparse(cv[i])]) ]

sparse_bounds_of(memory, regs, ks) ==
    returnDict_sparse(memory, ks, counts_values(regs, ks))
sparse_bounds_regs(memory, regs) == sparse_bounds_of(memory, regs, counts_keys(regs))
computeScenarioBounds_sparse(smp, memory) ==
    sparse_bounds_regs(memory, sample_regions(smp))

(***************************************************************************)
(* Actions (define_target_points): one default action per region, whose    *)
(* grid-tuple and centre are the region's, then the extra actions.         *)
(***************************************************************************)
\* spec.targets['extra']: centres of the extra target points
targets_extra == << <<1, 0>>, <<-1, 1>> >>
nr_default_act == nr_regions
nr_actions == nr_default_act + Len(targets_extra)
ActionIdxs == 0..(nr_actions - 1)
DefaultActs == 0..(nr_default_act - 1)
\* actions['extra_act'], as action indices in order
extra_act == [i \in 1..Len(targets_extra) |-> nr_default_act + (i - 1)]
ExtraActs == {extra_act[i] : i \in 1..Len(targets_extra)}

\* action(idx, model, center, tup, backreach_obj): the stored centre
act_center(a) ==
    IF a \in DefaultActs THEN R_center(R_tup(a))
    ELSE Tup(targets_extra[a - nr_default_act + 1])
\* action(idx, model, center, tup, backreach_obj): the stored tuple, the
\* grid-tuple of the region for a default action and the number -i for the
\* i-th extra action (i = 0, 1, ...)
act_tup(a) ==
    IF a \in DefaultActs THEN R_tup(a) ELSE -(a - nr_default_act)
\* actions['tup2idx']
tup2idx(t) == R_idx(t)

ZeroVec == [d \in Dims |-> 0]
NoError == [neg |-> ZeroVec, pos |-> ZeroVec]

(***************************************************************************)
(* State                                                                   *)
(***************************************************************************)
VARIABLES
    pc,                 \* stage of the pipeline
    goal,               \* partition['goal']: set of region indices
    critical,           \* partition['critical']: set of region indices
    enabled_sub_inv,    \* per subsystem: action key -> enabled state tuples
    control_error_sub,  \* per subsystem: action key -> [neg, pos]
    lp_feasible,        \* extra action -> regions where LP.solve succeeds
    parametric,         \* flags['parametric']
    Q_uncertain,        \* hasattr(model, 'Q_uncertain')
    actions_enabled,    \* actions['enabled']: region -> set of actions
    enabled_in,         \* act.enabled_in: action -> set of regions
    act_error,          \* act.error: action -> [neg, pos]
    nr_act,             \* value returned by _composeEnabledActions
    runs,               \* completed runs of define_actions
    first_run,          \* what the first run of define_actions left
    mdp_actions,        \* the actions structure handed to mdp(...)
    noise_pool,         \* values the noise generator can return
    table_pool,         \* contents the scenario table file can have
    table_file,         \* os.path.isfile(tableFile)
    memory,             \* trans['memory']
    confidence,         \* setup.sampling['confidence']
    max_radius,         \* args.sample_clustering
    samples,            \* the noise samples
    remaining_samples,
    remaining_samples_i,
    clusters0,
    todo,               \* actions still to visit in the loop over actions
    prob,               \* trans['prob'][0]: action -> returnDict
    prob_sparse,        \* exact-mode results for the same samples
    problem_type,       \* spec.problem_type
    policy_file,        \* contents of PRISM_<mode>_policy.csv, or NoFile
    vector_file,        \* contents of PRISM_<mode>_vector.csv, or NoFile
    results,            \* self.results
    returncode          \* what Popen(...).wait() returned (not kept by the code)

vars == << pc, goal, critical, enabled_sub_inv, control_error_sub, lp_feasible,
           parametric, Q_uncertain, actions_enabled, enabled_in, act_error,
           nr_act, runs, first_run, mdp_actions, noise_pool, table_pool,
           table_file, memory, confidence, max_radius, samples,
           remaining_samples, remaining_samples_i, clusters0, todo, prob,
           prob_sparse, problem_type, policy_file, vector_file, results,
           returncode >>

inputVars == << goal, critical, enabled_sub_inv, control_error_sub, lp_feasible,
                parametric, Q_uncertain, noise_pool, table_pool, table_file,
                confidence, max_radius >>
actionVars == << actions_enabled, enabled_in, act_error, nr_act, runs, first_run >>
clusterVars == << samples, remaining_samples, remaining_samples_i, clusters0 >>
solveVars == << problem_type, policy_file, vector_file, results, returncode >>

\* a file that does not exist, and self.results before it is assigned
NoFile == [exists |-> FALSE, content |-> << >>]
File(content) == [exists |-> TRUE, content |-> content]
NoResults == << >>
\* the solver has not run
SolveIdle ==
    /\ problem_type = "reachavoid"
    /\ policy_file = NoFile
    /\ vector_file = NoFile
    /\ results = NoResults
    /\ returncode = 0

(***************************************************************************)
(* Scenario tables offered to the model (rows k = 0..Nsamples)             *)
(***************************************************************************)
\* no information: every row is [0, 1]
TableVacuous == [k \in 0..Nsamples |-> <<0, One>>]
\* row k brackets the empirical frequency (N - k)/N by 0.2 on both sides
TableBracket ==
    [k \in 0..Nsamples |->
        << Max2(0, CountOverN(Nsamples - k) - FromMicro(200000)),
           Min2(One, CountOverN(Nsamples - k) + FromMicro(200000)) >>]
\* very small upper bounds (as for a large sample count): [0, 0.00005]
TableTiny == [k \in 0..Nsamples |-> <<0, FromMicro(50)>>]
\* large lower bounds: [0.9, 1]
TableHigh == [k \in 0..Nsamples |-> <<FromMicro(900000), One>>]
Tables == {TableVacuous, TableBracket, TableTiny, TableHigh}

\* every row of a table is an interval within [0, 1]
TableRowsOk(m) ==
    \A k \in 0..Nsamples : 0 <= m[k][1] /\ m[k][1] <= m[k][2] /\ m[k][2] <= One

NoTable == [k \in 0..Nsamples |-> IndexError]

(***************************************************************************)
(* define_actions / _composeEnabledActions                                 *)
(***************************************************************************)
\* find_connected_components: the state dimensions of each subsystem
dim_n == << <<1>>, <<2>> >>
Subsystems == 1..Len(dim_n)

\* the full-state grid-tuple of a subsystem tuple (zero in foreign dimensions)
SubTuple(z, v) == Force([d \in Dims |-> IF d = dim_n[z][1] THEN v ELSE 0])
SubTuples(z) == {SubTuple(z, v) : v \in 0..(PartitionNumber[dim_n[z][1]] - 1)}

\* np.sum(keys, axis=0): componentwise sum of one tuple per subsystem
RECURSIVE TupleSumTo(_, _)
TupleSumTo(ts, n) ==
    IF n = 0 THEN ZeroVec ELSE VecAdd(TupleSumTo(ts, n - 1), ts[n])
TupleSum(ts) == TupleSumTo(ts, Len(ts))

\* itertools.product over the subsystems of the sets S[z]
product(S) == {ts \in [Subsystems -> UNION {S[z] : z \in Subsystems}] :
                  \A z \in Subsystems : ts[z] \in S[z]}

\* model.Q_uncertain
Q_uncertain_min == [d \in Dims |-> -1]
Q_uncertain_max == [d \in Dims |-> 1]

\* mats[z] @ v: the error vector v of subsystem z embedded in the full state
embed(z, v) ==
    [d \in Dims |->
        LET F(j) == IF dim_n[z][j] = d THEN v[j] ELSE 0
        IN  SumOver(F, Len(dim_n[z]))]

\* np.sum([mats[z] @ vals_error[z][side] for z], axis=0)
RECURSIVE error_sum_to(_, _, _, _)
error_sum_to(errs, keys, side, n) ==
    IF n = 0 THEN ZeroVec
    ELSE VecAdd(error_sum_to(errs, keys, side, n - 1),
                embed(n, errs[n][keys[n]][side]))

composed_error(errs, keys, withQ) ==
    [ pos |-> IF withQ
              THEN VecAdd(error_sum_to(errs, keys, "pos", Len(dim_n)), Q_uncertain_max)
              ELSE error_sum_to(errs, keys, "pos", Len(dim_n)),
      neg |-> IF withQ
              THEN VecAdd(error_sum_to(errs, keys, "neg", Len(dim_n)), Q_uncertain_min)
              ELSE error_sum_to(errs, keys, "neg", Len(dim_n)) ]

\* act_idx = actions['tup2idx'][tuple(np.sum(keys, axis=0))]
composed_action(keys) == tup2idx(TupleSum(keys))

\* a variant of the lines below that pools the enabled tuples of the
\* subsystems instead of summing one of each
s_enabledin_pooled(inv, keys) ==
    {R_idx(e) : e \in UNION {inv[z][keys[z]] : z \in Subsystems}}

\* s_enabledin: the sums of one enabled tuple per subsystem, as regions
s_enabledin(inv, keys) ==
    {R_idx(TupleSum(e)) : e \in product([z \in Subsystems |-> inv[z][keys[z]]])}

\* a variant of the line below without the test for critical states
composed_states_unfiltered(inv, keys, crit) == s_enabledin(inv, keys)

\* the regions the loop over s_enabledin adds: critical ones are skipped
composed_states(inv, keys, crit) == s_enabledin(inv, keys) \ crit

\* the key combinations, in the order the loop visits them
RECURSIVE SetToSeq(_)
SetToSeq(S) ==
    IF S = {} THEN << >>
    ELSE LET x == CHOOSE y \in S : TRUE IN <<x>> \o SetToSeq(S \ {x})
enabled_inv_keys(inv) == SetToSeq(product([z \in Subsystems |-> DOMAIN inv[z]]))

\* one iteration of the loop over the key combinations, on the record
\* st = [enabled, enabled_in, error, nr_act]
compose_step(st, inv, errs, keys, crit, withQ) ==
    [ enabled    |-> [s \in Regions |->
                        IF s \in composed_states(inv, keys, crit)
                        THEN st.enabled[s] \cup {composed_action(keys)}
                        ELSE st.enabled[s]],
      enabled_in |-> [st.enabled_in EXCEPT ![composed_action(keys)] =
                        @ \cup composed_states(inv, keys, crit)],
      error      |-> [st.error EXCEPT ![composed_action(keys)] =
                        composed_error(errs, keys, withQ)],
      nr_act     |-> IF st.enabled_in[composed_action(keys)]
                           \cup composed_states(inv, keys, crit) # {}
                     THEN st.nr_act + 1 ELSE st.nr_act ]

RECURSIVE compose_loop(_, _, _, _, _, _, _)
compose_loop(st, inv, errs, ks, n, crit, withQ) ==
    IF n = 0 THEN st
    ELSE compose_step(compose_loop(st, inv, errs, ks, n - 1, crit, withQ),
                      inv, errs, ks[n], crit, withQ)

\* _composeEnabledActions: actions['enabled'] is reset, act.enabled_in and
\* act.error are kept from before
composeEnabledActions(old_in, old_error, inv, errs, crit, withQ) ==
    compose_loop([ enabled    |-> [s \in Regions |-> {}],
                   enabled_in |-> old_in,
                   error      |-> old_error,
                   nr_act     |-> 0 ],
                 inv, errs, enabled_inv_keys(inv),
                 Len(enabled_inv_keys(inv)), crit, withQ)

\* act.backreach_obj.max_control_error of the extra actions
max_control_error_extra == [neg |-> [d \in Dims |-> -2], pos |-> [d \in Dims |-> 2]]

\* compute_actions.epistemic_error(model).compute(vertices of the regions S)
epist_compute(S) ==
    [neg |-> [d \in Dims |-> -Cardinality(S)], pos |-> [d \in Dims |-> Cardinality(S)]]

\* s_min_list of an extra action: the non-critical regions with a feasible LP
s_min_list(feasible, crit) == {s \in Regions : s \notin crit /\ s \in feasible}

extra_error(list, withEpist) ==
    IF withEpist /\ list # {}
    THEN [ neg |-> VecAdd(max_control_error_extra.neg, epist_compute(list).neg),
           pos |-> VecAdd(max_control_error_extra.pos, epist_compute(list).pos) ]
    ELSE max_control_error_extra

\* a variant of the lines below that passes over the regions already in
\* act.enabled_in
extra_step_skip_known(st, act, list, withEpist) ==
    [ enabled    |-> [s \in Regions |->
                        IF s \in list \ st.enabled_in[act]
                        THEN st.enabled[s] \cup {act} ELSE st.enabled[s]],
      enabled_in |-> [st.enabled_in EXCEPT ![act] = @ \cup list],
      error      |-> [st.error EXCEPT ![act] = extra_error(list, withEpist)],
      nr_act     |-> st.nr_act ]

\* a variant of extra_step without `act.enabled_in.add(s_min)`
extra_step_one_sided(st, act, list, withEpist) ==
    [ enabled    |-> [s \in Regions |->
                        IF s \in list THEN st.enabled[s] \cup {act} ELSE st.enabled[s]],
      enabled_in |-> st.enabled_in,
      error      |-> [st.error EXCEPT ![act] = extra_error(list, withEpist)],
      nr_act     |-> st.nr_act ]

\* the loop `for act in self.actions['extra_act']`, one iteration
extra_step(st, act, list, withEpist) ==
    [ enabled    |-> [s \in Regions |->
                        IF s \in list THEN st.enabled[s] \cup {act} ELSE st.enabled[s]],
      enabled_in |-> [st.enabled_in EXCEPT ![act] = @ \cup list],
      error      |-> [st.error EXCEPT ![act] = extra_error(list, withEpist)],
      nr_act     |-> st.nr_act ]

RECURSIVE extra_loop(_, _, _, _, _)
extra_loop(st, lp, n, crit, withEpist) ==
    IF n = 0 THEN st
    ELSE extra_step(extra_loop(st, lp, n - 1, crit, withEpist),
                    extra_act[n], s_min_list(lp[extra_act[n]], crit), withEpist)

\* the state define_actions leaves, before its final test of nr_act
define_actions_result(old_in, old_error, inv, errs, lp, crit, withQ, withEpist) ==
    extra_loop(composeEnabledActions(old_in, old_error, inv, errs, crit, withQ),
               lp, Len(extra_act), crit, withEpist)

\* a variant of the line below that never sees an empty set of actions
no_actions_enabled_never(n) == n < 0

\* `if nr_act == 0: sys.exit()`
no_actions_enabled(n) == n = 0

run_record(st) ==
    [enabled |-> st.enabled, enabled_in |-> st.enabled_in, error |-> st.error]

finish_define_actions(st) ==
    /\ actions_enabled' = st.enabled
    /\ enabled_in' = st.enabled_in
    /\ act_error' = st.error
    /\ nr_act' = st.nr_act
    /\ runs' = runs + 1
    /\ first_run' = IF runs = 0 THEN run_record(st) ELSE first_run
    /\ pc' = IF no_actions_enabled(st.nr_act) THEN "exit" ELSE "define_probabilities"

\* define_actions, the first time or again before the next stage starts
DefineActions ==
    /\ pc \in {"define_actions", "define_probabilities"}
    /\ runs < MaxRuns
    /\ finish_define_actions(
          define_actions_result(enabled_in, act_error, enabled_sub_inv,
                                control_error_sub, lp_feasible, critical,
                                Q_uncertain, parametric))
    /\ UNCHANGED << inputVars, solveVars, clusterVars, mdp_actions, memory, todo, prob, prob_sparse >>

\* build_iMDP: mdp(setup, N, partition, actions) is given the actions as
\* they are
BuildIMDP ==
    /\ pc = "build_iMDP"
    /\ mdp_actions' = [enabled |-> actions_enabled, enabled_in |-> enabled_in]
    /\ pc' = "solve_iMDP"
    /\ UNCHANGED << inputVars, solveVars, actionVars, clusterVars, memory, todo, prob, prob_sparse >>

(***************************************************************************)
(* define_probabilities / _loadScenarioTable / _computeProbabilityBounds   *)
(***************************************************************************)
\* a variant of the action below without the os.path.isfile test: with no
\* file the stage goes on with the table it had
LoadScenarioTable_unchecked ==
    /\ pc = "define_probabilities"
    /\ IF ~table_file
       THEN UNCHANGED memory
       ELSE \E m \in table_pool : memory' = m
    /\ pc' = "sample"
    /\ prob' = << >>
    /\ UNCHANGED << inputVars, solveVars, actionVars, clusterVars, mdp_actions, todo, prob_sparse >>

\* _loadScenarioTable: a missing file ends the process, otherwise the table
\* is read into trans['memory']
LoadScenarioTable ==
    /\ pc = "define_probabilities"
    /\ IF ~table_file
       THEN /\ pc' = "exit"
            /\ UNCHANGED memory
       ELSE /\ \E m \in table_pool : memory' = m
            /\ pc' = "sample"
    /\ prob' = << >>
    /\ UNCHANGED << inputVars, solveVars, actionVars, clusterVars, mdp_actions, todo, prob_sparse >>

\* the actions in the order of the loop `for a_idx, act in actions['obj'].items()`
actions_in_order == [i \in 1..nr_actions |-> i - 1]

\* np.random.multivariate_normal(...): the samples; without clustering every
\* sample is its own cluster of value 1
DrawSamples ==
    /\ pc = "sample"
    /\ \E smp \in [1..Nsamples -> noise_pool] :
        /\ samples' = smp
        /\ IF max_radius > 0
           THEN /\ remaining_samples' = smp
                /\ remaining_samples_i' = [i \in 1..Nsamples |-> i]
                /\ clusters0' = << >>
                /\ pc' = "cluster"
                /\ todo' = todo
           ELSE /\ clusters0' = [i \in 1..Nsamples |->
                                   [value |-> 1, lb |-> smp[i], ub |-> smp[i]]]
                /\ UNCHANGED << remaining_samples, remaining_samples_i >>
                /\ pc' = "actions"
                /\ todo' = actions_in_order
    /\ UNCHANGED << inputVars, solveVars, actionVars, mdp_actions, memory, prob, prob_sparse >>

SqDist(a, b) ==
    LET F(d) == (a[d] - b[d]) * (a[d] - b[d]) IN SumOver(F, Dim)

\* distances < max_radius, for remaining sample i against the first one
distances_below(rem, radius, i) == SqDist(rem[1], rem[i]) < radius * radius

RECURSIVE MinOf(_, _, _)
MinOf(q, d, n) ==
    IF n = 1 THEN q[1][d] ELSE Min2(q[n][d], MinOf(q, d, n - 1))
RECURSIVE MaxOf(_, _, _)
MaxOf(q, d, n) ==
    IF n = 1 THEN q[1][d] ELSE Max2(q[n][d], MaxOf(q, d, n - 1))

\* the cluster opened by the first remaining sample
new_cluster(rem, rem_i, radius) ==
    LET below(i) == distances_below(rem, radius, i)
        sel == Where(below, Len(rem))
        cluster_samples == [j \in 1..Len(sel) |-> rem[sel[j]]]
        cluster_i == [j \in 1..Len(sel) |-> rem_i[sel[j]]]
    IN  [ value |-> Len(cluster_i),
          lb |-> [d \in Dims |-> MinOf(cluster_samples, d, Len(cluster_samples))],
          ub |-> [d \in Dims |-> MaxOf(cluster_samples, d, Len(cluster_samples))] ]

\* a variant of the line below that keeps only the samples strictly farther
\* than the radius, so a sample at exactly the radius is in no cluster
still_remaining_strict(rem, q, radius) ==
    LET above(i) == SqDist(rem[1], rem[i]) > radius * radius
        sel == Where(above, Len(rem))
    IN  [j \in 1..Len(sel) |-> q[sel[j]]]

\* a variant of the line below in which the first sample is not removed
still_remaining_pivot(rem, q, radius) ==
    LET above(i) == i = 1 \/ ~distances_below(rem, radius, i)
        sel == Where(above, Len(rem))
    IN  [j \in 1..Len(sel) |-> q[sel[j]]]

\* what remains: remaining_samples[ ~distances_below ]
still_remaining(rem, q, radius) ==
    LET above(i) == ~distances_below(rem, radius, i)
        sel == Where(above, Len(rem))
    IN  [j \in 1..Len(sel) |-> q[sel[j]]]

\* one iteration of `while len(remaining_samples) > 0`
ClusterStep ==
    /\ pc = "cluster"
    /\ Len(remaining_samples) > 0
    /\ clusters0' = Append(clusters0,
                       new_cluster(remaining_samples, remaining_samples_i, max_radius))
    /\ remaining_samples' =
          still_remaining(remaining_samples, remaining_samples, max_radius)
    /\ remaining_samples_i' =
          still_remaining(remaining_samples, remaining_samples_i, max_radius)
    /\ UNCHANGED << pc, inputVars, solveVars, actionVars, mdp_actions, memory, samples, todo,
                    prob, prob_sparse >>

cluster_values(cl) == [i \in 1..Len(cl) |-> cl[i].value]

\* the loop has ended: assert sum(clusters0['value']) == args.noise_samples
ClusterAssert ==
    /\ pc = "cluster"
    /\ Len(remaining_samples) = 0
    /\ IF SeqSum(cluster_values(clusters0)) = Nsamples
       THEN pc' = "actions" /\ todo' = actions_in_order
       ELSE pc' = "abort" /\ todo' = todo
    /\ UNCHANGED << inputVars, solveVars, actionVars, clusterVars, mdp_actions, memory,
                    prob, prob_sparse >>

\* clusters0 shifted by the centre of the target of action a
shifted_clusters(cl, a) ==
    Force([i \in 1..Len(cl) |->
        [ value |-> cl[i].value,
          lb |-> VecAdd(cl[i].lb, act_center(a)),
          ub |-> VecAdd(cl[i].ub, act_center(a)) ]])

\* the arguments of computeScenarioBounds_error for action a
error_args(a) ==
    [ clusters     |-> shifted_clusters(clusters0, a),
      error        |-> act_error[a],
      goal_idx     |-> idx_of(goal),
      critical_idx |-> idx_of(critical),
      memory       |-> memory,
      epsilon      |-> epsilon_of(confidence) ]

\* a variant of the action below that shifts the shared cluster summary in
\* place (clusters0['lb'] += act.center) instead of building a new one
ProbAction_inplace ==
    /\ pc = "actions"
    /\ todo # << >>
    /\ LET a == Head(todo)
       IN  /\ IF enabled_in[a] # {}
              THEN prob' = (a :> computeScenarioBounds_error(error_args(a))) @@ prob
              ELSE prob' = prob
           /\ clusters0' = shifted_clusters(clusters0, a)
           /\ todo' = Tail(todo)
    /\ UNCHANGED << pc, inputVars, solveVars, actionVars, samples, remaining_samples,
                    remaining_samples_i, mdp_actions, memory, prob_sparse >>

\* one iteration of the loop over the actions
ProbAction ==
    /\ pc = "actions"
    /\ todo # << >>
    /\ LET a == Head(todo)
       IN  /\ IF enabled_in[a] # {}
              THEN prob' = (a :> computeScenarioBounds_error(error_args(a))) @@ prob
              ELSE prob' = prob
           /\ todo' = Tail(todo)
    /\ UNCHANGED << pc, inputVars, solveVars, actionVars, clusterVars, mdp_actions, memory,
                    prob_sparse >>

\* the loop over the actions has ended: return prob
ProbDone ==
    /\ pc = "actions"
    /\ todo = << >>
    /\ pc' = "build_iMDP"
    /\ UNCHANGED << inputVars, solveVars, actionVars, clusterVars, mdp_actions, memory,
                    todo, prob, prob_sparse >>

NextProb ==
    \/ LoadScenarioTable
    \/ DrawSamples
    \/ ClusterStep
    \/ ClusterAssert
    \/ ProbAction
    \/ ProbDone

(***************************************************************************)
(* The probability stage on its own: the action stage has left some        *)
(* actions enabled, with one control error for all of them.                *)
(***************************************************************************)
NoisePoints == { <<0, 0>>, <<1, 0>>, <<2, 2>>, <<-2, 0>> }
Radii == {0, 2, 3}
ErrorChoices ==
    { NoError,
      [neg |-> [d \in Dims |-> -1], pos |-> [d \in Dims |-> 1]] }
\* the actions enabled somewhere when the stage starts
ProbEnabledIn ==
    [a \in ActionIdxs |-> IF a \in {0, nr_regions - 1} THEN {0} ELSE {}]

InitProb ==
    /\ pc = "define_probabilities"
    /\ goal \in {{}, {nr_regions - 1}}
    /\ critical \in {{}, {0}}
    /\ enabled_sub_inv = << >>
    /\ control_error_sub = << >>
    /\ lp_feasible = << >>
    /\ parametric = FALSE
    /\ Q_uncertain = FALSE
    /\ actions_enabled = [s \in Regions |-> {a \in ActionIdxs : s \in ProbEnabledIn[a]}]
    /\ enabled_in = ProbEnabledIn
    /\ \E e \in ErrorChoices : act_error = [a \in ActionIdxs |-> e]
    /\ nr_act = Cardinality({a \in ActionIdxs : ProbEnabledIn[a] # {}})
    /\ runs = 1
    /\ first_run = << >>
    /\ mdp_actions = << >>
    /\ noise_pool = NoisePoints
    /\ table_pool = Tables
    /\ table_file \in BOOLEAN
    /\ memory = NoTable
    /\ confidence \in Confidences
    /\ max_radius \in Radii
    /\ samples = << >>
    /\ remaining_samples = << >>
    /\ remaining_samples_i = << >>
    /\ clusters0 = << >>
    /\ todo = << >>
    /\ prob = << >>
    /\ prob_sparse = << >>
    /\ SolveIdle

\* the samples shifted by the centre of the target of action a
shifted_samples(smp, a) == Force([i \in 1..Len(smp) |-> VecAdd(smp[i], act_center(a))])

\* computeScenarioBounds_sparse, the exact-mode engine, applied to the samples
\* of the stage for every action that is enabled somewhere
ExactBounds ==
    /\ pc = "build_iMDP"
    /\ prob_sparse' =
          [a \in {b \in ActionIdxs : enabled_in[b] # {}} |->
              computeScenarioBounds_sparse(shifted_samples(samples, a), memory)]
    /\ pc' = "done"
    /\ UNCHANGED << inputVars, solveVars, actionVars, clusterVars, mdp_actions, memory,
                    todo, prob >>

NextEngines ==
    \/ NextProb
    \/ ExactBounds

SpecProb == InitProb /\ [][NextEngines]_vars

(***************************************************************************)
(* Properties of the probability stage (checked under SpecProb)            *)
(***************************************************************************)
\* the stages after the clustering step
AfterClustering == {"actions", "build_iMDP", "solve_iMDP", "done"}

\* C1: with a clustering radius > 0, the cluster sizes and the samples not
\* yet clustered always add up to the number of samples, so that after the
\* clustering step the cluster sizes sum to the number of samples exactly and
\* the assertion never aborts the run.
C1_ClusterSizesSumToN ==
    max_radius > 0 =>
        /\ pc # "abort"
        /\ pc = "cluster" =>
              SeqSum(cluster_values(clusters0)) + Len(remaining_samples) = Nsamples
        /\ pc \in AfterClustering =>
              SeqSum(cluster_values(clusters0)) = Nsamples

\* C1 witness: clustering has ended with a cluster of several samples and
\* another cluster
C1_Witness ==
    /\ max_radius > 0
    /\ pc = "actions"
    /\ Len(clusters0) >= 2
    /\ \E i \in 1..Len(clusters0) : clusters0[i].value >= 2

\* an interval <<lb, ub>> within [0, 1]
IntervalOk(iv) == 0 <= iv[1] /\ iv[1] <= iv[2] /\ iv[2] <= One

\* C2: with a scenario table whose rows satisfy 0 <= lower <= upper <= 1,
\* every successor interval returned by either engine satisfies
\* 0 <= lb <= ub <= 1.
C2_IntervalsValid ==
    TableRowsOk(memory) =>
        /\ \A a \in DOMAIN prob :
              \A i \in 1..Len(prob[a].interval_strings) :
                  IntervalOk(prob[a].interval_strings[i])
        /\ \A a \in DOMAIN prob_sparse :
              \A i \in 1..Len(prob_sparse[a].interval_strings) :
                  IntervalOk(prob_sparse[a].interval_strings[i])

\* the point estimates of a returnDict and its deadlock estimate add up to 1
\* within one unit of the fifth decimal
MassConserved(r) ==
    /\ r.deadlock_approx + SeqSum(r.approx_strings) - One < Step
    /\ One - (r.deadlock_approx + SeqSum(r.approx_strings)) < Step

\* C3: for every action enabled somewhere, the returned deadlock point
\* estimate plus the returned successor point estimates (goal and critical
\* aggregates included) is 1 within the rounding precision, in both engines.
C3_MassConserved ==
    /\ \A a \in DOMAIN prob : MassConserved(prob[a])
    /\ \A a \in DOMAIN prob_sparse : MassConserved(prob_sparse[a])

\* an estimate that is no multiple of 1/Nsamples: it has been rounded
Rounded(e) == (e * Nsamples) % One # 0

\* C3 witness: both engines have returned a rounded successor estimate next
\* to a deadlock estimate that is not zero, and the interval engine has
\* returned estimates that sum to more than 1
C3_Witness ==
    /\ \E a \in DOMAIN prob :
          /\ prob[a].deadlock_approx > 0
          /\ \E i \in 1..Len(prob[a].approx_strings) : Rounded(prob[a].approx_strings[i])
    /\ \E a \in DOMAIN prob : SeqSum(prob[a].approx_strings) > One
    /\ \E a \in DOMAIN prob_sparse :
          /\ prob_sparse[a].deadlock_approx > 0
          /\ \E i \in 1..Len(prob_sparse[a].approx_strings) :
                Rounded(prob_sparse[a].approx_strings[i])

\* C4: the deadlock point estimate returned by either engine is never
\* negative.
C4_DeadlockApproxNonNegative ==
    /\ \A a \in DOMAIN prob : prob[a].deadlock_approx >= 0
    /\ \A a \in DOMAIN prob_sparse : prob_sparse[a].deadlock_approx >= 0

\* the outer bounds of the partition in dimension d
domain_low(d) == PartitionOrigin[d] - ((PartitionWidth[d] * PartitionNumber[d]) \div 2)
domain_high(d) == PartitionOrigin[d] + ((PartitionWidth[d] * PartitionNumber[d]) \div 2)

\* the error-inflated box of cluster c, by its corners
box_low(A, c) == VecAdd(A.clusters[c].lb, A.error.neg)
box_high(A, c) == VecAdd(A.clusters[c].ub, A.error.pos)

\* the box lies fully outside the partition in some dimension: it ends at or
\* before the lower bound, or starts at or after the upper bound
BoxFullyOutside(A, c) ==
    \E d \in Dims : \/ box_high(A, c)[d] <= domain_low(d)
                    \/ box_low(A, c)[d] >= domain_high(d)
\* the box reaches beyond the partition in some dimension
BoxPartiallyOutside(A, c) ==
    \E d \in Dims : \/ box_low(A, c)[d] < domain_low(d)
                    \/ box_high(A, c)[d] > domain_high(d)
\* the box lies within the bounds of the partition and meets its interior
BoxInside(A, c) ==
    \A d \in Dims : /\ domain_low(d) <= box_low(A, c)[d]
                    /\ box_high(A, c)[d] <= domain_high(d)
                    /\ box_low(A, c)[d] < domain_high(d)
                    /\ box_high(A, c)[d] > domain_low(d)

BoxCountFullyOutside(A) ==
    LET F(c) == IF BoxFullyOutside(A, c) THEN A.clusters[c].value ELSE 0
    IN  SumOver(F, Len(A.clusters))
BoxCountPartiallyOutside(A) ==
    LET F(c) == IF BoxPartiallyOutside(A, c) THEN A.clusters[c].value ELSE 0
    IN  SumOver(F, Len(A.clusters))

AbsorbingCountsExact(A, E) ==
    /\ counts_absorb_low(E) = BoxCountFullyOutside(A)
    /\ counts_absorb_upp(E) = BoxCountPartiallyOutside(A)
    /\ \A c \in 1..Len(A.clusters) :
          BoxInside(A, c) => ~fully_out(E, c) /\ ~partially_out(E, c)

cell_low(t, d) == domain_low(d) + t[d] * PartitionWidth[d]
cell_high(t, d) == domain_low(d) + (t[d] + 1) * PartitionWidth[d]

\* both corners of the box resolve to the cell t: the box lies within the
\* cell and meets its interior
BoxInCell(A, c, t) ==
    \A d \in Dims : /\ cell_low(t, d) <= box_low(A, c)[d]
                    /\ box_high(A, c)[d] <= cell_high(t, d)
                    /\ box_low(A, c)[d] < cell_high(t, d)
                    /\ box_high(A, c)[d] > cell_low(t, d)
BoxInSomeCell(A, c) == \E t \in IdxTuples : BoxInCell(A, c, t)
\* the box reaches into the cell t
BoxReachesCell(A, c, t) ==
    \A d \in Dims : /\ box_low(A, c)[d] < cell_high(t, d)
                    /\ box_high(A, c)[d] > cell_low(t, d)
\* t is neither a goal nor a critical region
Ordinary(A, t) == t \notin A.goal_idx /\ t \notin A.critical_idx

\* what the box of each cluster says, computed once: its size, the cell it
\* lies in (if any), and the cells it reaches when it lies in no single cell
\* and is not fully outside
BoxFacts(A) ==
    Force([c \in 1..Len(A.clusters) |->
        [ value   |-> A.clusters[c].value,
          single  |-> {t \in IdxTuples : BoxInCell(A, c, t)},
          reaches |-> IF BoxFullyOutside(A, c) \/ BoxInSomeCell(A, c) THEN {}
                      ELSE {t \in IdxTuples : BoxReachesCell(A, c, t)} ]])
\* size of the clusters that resolve to the single cell t
SizeInCell(bf, t) ==
    LET F(c) == IF t \in bf[c].single THEN bf[c].value ELSE 0
    IN  SumOver(F, Len(bf))
\* size of the other clusters, not fully outside, that reach the cell t
SizeReachingCell(bf, t) ==
    LET F(c) == IF t \in bf[c].reaches THEN bf[c].value ELSE 0
    IN  SumOver(F, Len(bf))

\* the row <<region, lower count, upper count>> of region s
ExpectedRow(s, low, reach) == <<s, low, low + reach>>
\* the rows of the ordinary regions with a positive upper count
RowsOf(A, bf) ==
    { row \in { ExpectedRow(s, SizeInCell(bf, R_tup(s)), SizeReachingCell(bf, R_tup(s))) :
                  s \in {r \in Regions : Ordinary(A, R_tup(r))} } : row[3] > 0 }
ExpectedRows(A) == RowsOf(A, BoxFacts(A))

SeqRange(q) == {q[i] : i \in 1..Len(q)}

\* the returned dictionary r lists the regions of the rows, each once, with
\* the point estimate and the interval of the counts of the row
ReturnedRowIs(A, row, interval, approx) ==
    /\ approx = np_round(MeanOverN(row[2], row[3]))
    /\ interval = <<probs_lb_error(A, row), probs_ub_error(A, row)>>
RowsAre(A, rows, r) ==
    /\ {x \in SeqRange(r.successor_idxs) : x >= 0} = {row[1] : row \in rows}
    /\ \A i, j \in 1..Len(r.successor_idxs) :
          r.successor_idxs[i] = r.successor_idxs[j] => i = j
    /\ \A i \in 1..Len(r.successor_idxs) :
          r.successor_idxs[i] >= 0 =>
              ReturnedRowIs(A, CHOOSE row \in rows : row[1] = r.successor_idxs[i],
                            r.interval_strings[i], r.approx_strings[i])
OrdinaryCountsAre(A, r) == RowsAre(A, ExpectedRows(A), r)

\* C11: in interval mode a cluster whose two box corners resolve to one
\* ordinary region adds its size to the lower and the upper count of that
\* region only; every other cluster that is not fully outside adds its size
\* to the upper count of every ordinary region its box reaches and to no
\* lower count of a region; the returned successors and point estimates are
\* those of these counts.
C11_RegionCounts ==
    pc = "build_iMDP" => \A a \in DOMAIN prob : OrdinaryCountsAre(error_args(a), prob[a])

\* C11 witness: an action has been processed with a cluster of several
\* samples inside one ordinary region and another cluster, not fully
\* outside, that reaches several ordinary regions
C11_Witness ==
    pc = "build_iMDP" /\ \E a \in DOMAIN prob :
        /\ \E c \in 1..Len(clusters0) : \E t \in IdxTuples :
              /\ BoxInCell(error_args(a), c, t)
              /\ Ordinary(error_args(a), t)
              /\ clusters0[c].value >= 2
        /\ \E c \in 1..Len(clusters0) :
              /\ ~BoxInSomeCell(error_args(a), c)
              /\ ~BoxFullyOutside(error_args(a), c)
              /\ Cardinality({t \in IdxTuples : /\ BoxReachesCell(error_args(a), c, t)
                                                /\ Ordinary(error_args(a), t)}) >= 2

\* the cluster c adds its size to both counts of the aggregate of the set S:
\* it is not fully outside, every region of its clipped index range is in S
\* and the cluster itself is not partially outside
CertainIn(E, c, S) ==
    /\ ~fully_out(E, c)
    /\ index_tuples(E, c) \subseteq S
    /\ ~partially_out(E, c)
\* the cluster c adds its size to the upper count of the aggregate only
PossibleIn(E, c, S) ==
    /\ ~fully_out(E, c)
    /\ ~CertainIn(E, c, S)
    /\ index_tuples(E, c) \cap S # {}
AggregateRow(E, key, S) ==
    LET F(c) == IF CertainIn(E, c, S) THEN E.value[c] ELSE 0
        G(c) == IF PossibleIn(E, c, S) THEN E.value[c] ELSE 0
    IN  <<key, SumOver(F, nr_clusters(E)),
               SumOver(F, nr_clusters(E)) + SumOver(G, nr_clusters(E))>>
AggregatesAre(E, cs, r) ==
    /\ \A i \in 1..Len(r.successor_idxs) :
          /\ r.successor_idxs[i] >= 0 =>
                R_tup(r.successor_idxs[i]) \notin E.goal_idx \cup E.critical_idx
          /\ r.successor_idxs[i] = cs[i][1]
    /\ \A i \in 1..Len(cs) :
          /\ cs[i][1] = -1 => cs[i] = AggregateRow(E, -1, E.goal_idx)
          /\ cs[i][1] = -2 => cs[i] = AggregateRow(E, -2, E.critical_idx)

\* C12: in interval mode goal and critical regions are never individual
\* successors; the aggregate -1 (goal) and -2 (critical) get the size of a
\* cluster in both counts exactly when all regions of its index range are in
\* the set and that cluster is not partially outside, in the upper count
\* only when the range merely intersects the set, and not at all otherwise.
C12_AggregateCounts ==
    pc = "build_iMDP" => \A a \in DOMAIN prob :
        AggregatesAre(indexed(error_args(a)), counts(indexed(error_args(a))), prob[a])

\* the upper bound ub is the upper bound of a row of the scenario table, as
\* it is reported (floored to 5 decimals, at most 1)
FromTable(m, ub) ==
    \E k \in 0..Nsamples : ub = Min2(One, floor_decimal(memory_row(m, k)[2]))
UpperBoundsFromTable(r) ==
    \A i \in 1..Len(r.interval_strings) : FromTable(memory, r.interval_strings[i][2])

\* C13: in interval mode the upper bound of a successor interval is taken
\* from the scenario table unless the cluster count exceeds the safety bound;
\* stated for the smallest cluster count there is, a single cluster, which
\* exceeds no bound that another count does not exceed.
C13_UpperBoundFromTable ==
    (pc = "build_iMDP" /\ Len(clusters0) = 1) =>
        \A a \in DOMAIN prob : UpperBoundsFromTable(prob[a])

\* the point p lies in the cell with grid-tuple t (lower borders included)
InCell(p, t) ==
    \A d \in Dims : cell_low(t, d) <= p[d] /\ p[d] < cell_high(t, d)
\* the region whose cell holds each sample, -1 for a sample in no cell
RegionHolding(p) ==
    IF \E t \in IdxTuples : InCell(p, t)
    THEN R_idx(CHOOSE t \in IdxTuples : InCell(p, t)) ELSE -1
RegionsHolding(smp) == Force([i \in 1..Len(smp) |-> RegionHolding(smp[i])])
\* number of the samples in region s (in no region for s = -1)
HitCount(held, s) ==
    LET F(i) == IF held[i] = s THEN 1 ELSE 0 IN SumOver(F, Len(held))
RegionsHit(held) == SeqRange(held) \ {-1}
\* a pair of bounds as computeScenarioBounds_sparse reports it
Reported(row) == interval_string_sparse(row[1], row[2])

ExactRowIs(m, count, interval, approx) ==
    /\ interval = Reported(memory_row(m, Nsamples - count))
    /\ approx = np_round(CountOverN(count))
ExactCountsAre(held, m, r) ==
    /\ SumOver(LAMBDA i : HitCount(held, i - 1), nr_regions) + HitCount(held, -1) = Nsamples
    /\ SeqRange(r.successor_idxs) = RegionsHit(held)
    /\ Len(r.successor_idxs) = Cardinality(RegionsHit(held))
    /\ \A i \in 1..Len(r.successor_idxs) :
          ExactRowIs(m, HitCount(held, r.successor_idxs[i]),
                     r.interval_strings[i], r.approx_strings[i])
    /\ r.deadlock_interval_string =
          Reported(<< One - memory_row(m, HitCount(held, -1))[2],
                      One - memory_row(m, HitCount(held, -1))[1] >>)

\* C14: in exact mode every sample is counted for the one region whose cell
\* holds it or for the absorbing state, so the counts and the absorbed count
\* sum to N; successor_idxs lists the regions hit, each once; the bounds of
\* a region hit by `count` samples are those of the table row N - count, and
\* the deadlock bounds those of the row of the absorbed count.
C14_ExactCounts ==
    pc = "done" => \A a \in DOMAIN prob_sparse :
        ExactCountsAre(RegionsHolding(shifted_samples(samples, a)), memory, prob_sparse[a])

\* C14 witness: the exact engine has run on samples of which two fall into
\* one region and one outside, with a table whose rows differ
C14_Witness ==
    /\ pc = "done"
    /\ memory = TableBracket
    /\ \E a \in DOMAIN prob_sparse :
          /\ \E s \in Regions :
                HitCount(RegionsHolding(shifted_samples(samples, a)), s) = 2
          /\ HitCount(RegionsHolding(shifted_samples(samples, a)), -1) = 1

\* row k of the table brackets the empirical frequency (N - k)/N
Bracketing(m) ==
    \A k \in 0..Nsamples :
        m[k][1] <= CountOverN(Nsamples - k) /\ CountOverN(Nsamples - k) <= m[k][2]
Within(interval, x) == interval[1] <= x /\ x <= interval[2]
EstimatesWithin(r) ==
    /\ \A i \in 1..Len(r.successor_idxs) :
          Within(r.interval_strings[i], r.approx_strings[i])
    /\ Within(r.deadlock_interval_string, r.deadlock_approx)

\* C15: in exact mode, with a table whose row k brackets (N - k)/N, every
\* reported successor interval contains the reported point estimate of the
\* successor and the reported deadlock interval contains the reported
\* deadlock estimate.
C15_IntervalsBracketEstimates ==
    (pc = "done" /\ Bracketing(memory)) =>
        \A a \in DOMAIN prob_sparse : EstimatesWithin(prob_sparse[a])

\* C16: every cluster produced by the clustering step has a bounding box
\* whose side is at most the clustering radius in every dimension.
C16_ClusterBoxWithinRadius ==
    max_radius > 0 =>
        \A c \in 1..Len(clusters0) : \A d \in Dims :
            clusters0[c].ub[d] - clusters0[c].lb[d] <= max_radius

\* C17: with no scenario table file define_probabilities ends the process
\* before any transition probability is computed, and nothing runs after it;
\* the table is loaded once, at the start of the stage, before the first
\* action is processed.
C17_MissingTableAborts ==
    /\ [](~table_file => /\ pc \in {"define_probabilities", "exit"}
                         /\ DOMAIN prob = {}
                         /\ DOMAIN prob_sparse = {})
    /\ [](DOMAIN prob # {} => memory \in table_pool)
    /\ [][/\ pc = "exit" => UNCHANGED vars
          /\ memory' # memory => /\ pc = "define_probabilities"
                                 /\ pc' = "sample"
                                 /\ DOMAIN prob' = {}]_vars

\* C17 witness: the stage has ended at the missing table file
C17_Witness == pc = "exit" /\ ~table_file /\ DOMAIN prob = {}

\* C22: processing one action of the probability stage leaves the cluster
\* summary, the partition with its goal and critical regions, the scenario
\* table, every action's enabled set and error, and the results of the
\* actions processed before unchanged; the result of an action depends on
\* nothing an earlier iteration has written.
C22_ActionsIndependent ==
    [][(pc = "actions" /\ todo # << >>) =>
          /\ UNCHANGED << clusterVars, inputVars, actionVars, memory >>
          /\ \A b \in DOMAIN prob : b \in DOMAIN prob' /\ prob'[b] = prob[b]]_vars

\* C22 witness: one action has been processed and another one, enabled
\* somewhere, is still to be processed
C22_Witness ==
    /\ pc = "actions"
    /\ DOMAIN prob # {}
    /\ \E i \in 1..Len(todo) : enabled_in[todo[i]] # {}

\* the stage up to the end of the clustering loop (lines 689-747), with the
\* steps of the loop taken as long as they are possible: the loop is
\* sequential code that keeps running
NextCluster == LoadScenarioTable \/ DrawSamples \/ ClusterStep \/ ClusterAssert

\* the loop reads the samples and the radius only: the goal, the critical
\* regions and the control error are held at one value
InitCluster == InitProb /\ goal = {} /\ critical = {} /\ act_error[0] = NoError

SpecCluster ==
    InitCluster /\ [][NextCluster]_vars /\ WF_vars(ClusterStep) /\ WF_vars(ClusterAssert)

\* C24: for a radius > 0 the clustering loop terminates: every iteration
\* removes the first remaining sample (and with it every remaining sample
\* within the radius), so there are at most N iterations and the loop ends
\* with no sample remaining.
C24_ClusteringTerminates ==
    /\ (pc = "cluster") ~> (pc = "actions" /\ remaining_samples = << >>)
    /\ [](Len(clusters0) <= Nsamples)
    /\ [][(pc = "cluster" /\ pc' = "cluster") =>
             /\ Len(remaining_samples') < Len(remaining_samples)
             /\ \A j \in 1..Len(remaining_samples_i') :
                   /\ remaining_samples_i'[j] # remaining_samples_i[1]
                   /\ SqDist(samples[remaining_samples_i'[j]],
                             samples[remaining_samples_i[1]]) >= max_radius * max_radius]_vars

\* C24 witness: the loop has ended after more than one iteration
C24_Witness ==
    /\ pc = "actions"
    /\ max_radius > 0
    /\ Len(clusters0) >= 2
    /\ remaining_samples = << >>

\* f is the largest multiple of 10^-nr_decimals that is not greater than a
largest_multiple_below(f, a) == f % Step = 0 /\ f <= a /\ a < f + Step

\* C25: floor_decimal returns the largest multiple of 10^-5 not greater than
\* its argument and leaves a multiple of 10^-5 unchanged, for every value of
\* the scenario table the engines floor.
C25_FloorDecimalIsFloor ==
    memory # NoTable =>
        \A k \in 0..Nsamples : \A j \in 1..2 :
            /\ largest_multiple_below(floor_decimal(memory[k][j]), memory[k][j])
            /\ memory[k][j] % Step = 0 => floor_decimal(memory[k][j]) = memory[k][j]

\* every row of `counts` has a positive upper count
UpperCountsPositive(cs) == \A i \in 1..Len(cs) : cs[i][3] > 0
\* every key of the dict `counts` of the exact engine holds a sample
SampleCountsPositive(regs) ==
    \A i \in 1..Len(counts_keys(regs)) : counts_sparse(regs, counts_keys(regs)[i]) > 0

\* C26: every successor entry the engines return, the goal and the critical
\* aggregate of interval mode included, has a positive upper count: no
\* successor that no sample or cluster could reach is emitted.
C26_SuccessorsReachable ==
    /\ pc = "build_iMDP" =>
          \A a \in DOMAIN prob : UpperCountsPositive(counts(indexed(error_args(a))))
    /\ pc = "done" =>
          \A a \in DOMAIN prob_sparse :
              SampleCountsPositive(sample_regions(shifted_samples(samples, a)))

\* a row index of the scenario table
TableIndex(k) == k \in 0..Nsamples
\* the table indices of interval mode: Nsamples - counts[:, 1] for every row
\* of `counts` (the minimum with Nsamples changes nothing) and the absorbing
\* upper count
IntervalLookupsInRange(cs, absorb_upp) ==
    /\ TableIndex(absorb_upp)
    /\ \A i \in 1..Len(cs) :
          TableIndex(Nsamples - cs[i][2]) /\ discard_upp(cs[i]) = Nsamples - cs[i][2]
\* the table indices of exact mode: k = Nsamples - sum(counts.values()) and
\* Nsamples - count for every key
ExactLookupsInRange(regs, ks) ==
    /\ TableIndex(Nsamples - SeqSum(counts_values(regs, ks)))
    /\ \A i \in 1..Len(ks) : TableIndex(Nsamples - counts_sparse(regs, ks[i]))
SizesSumToN == SeqSum([i \in 1..Len(clusters0) |-> clusters0[i].value]) = Nsamples

\* C27: when the cluster sizes sum to N and the table has rows 0..N, every
\* index used to look up the table lies in 0..N: N minus the lower count of a
\* successor and the absorbing upper count in interval mode, the absorbed
\* count k and N minus the count of a region in exact mode.
C27_LookupsInRange ==
    /\ (pc = "build_iMDP" /\ SizesSumToN /\ DOMAIN memory = 0..Nsamples) =>
          \A a \in DOMAIN prob :
              IntervalLookupsInRange(counts(indexed(error_args(a))),
                                     counts_absorb_upp(indexed(error_args(a))))
    /\ (pc = "done" /\ DOMAIN memory = 0..Nsamples) =>
          \A a \in DOMAIN prob_sparse :
              ExactLookupsInRange(sample_regions(shifted_samples(samples, a)),
                  counts_keys(sample_regions(shifted_samples(samples, a))))

\* C27 witness: both engines have looked up the table for clusters of
\* different sizes, some of them outside the partition
C27_Witness ==
    /\ pc = "done"
    /\ SizesSumToN
    /\ \E i \in 1..Len(clusters0) : clusters0[i].value >= 2
    /\ \E a \in DOMAIN prob :
          /\ a \in DOMAIN prob_sparse
          /\ Len(prob[a].successor_idxs) >= 1
          /\ counts_absorb_upp(indexed(error_args(a))) >= 1

\* the sums of the lower and of the upper counts over the emitted buckets:
\* the rows of `counts` and the absorbing state
SumLower(cs, absorb_low) == SeqSum([i \in 1..Len(cs) |-> cs[i][2]]) + absorb_low
SumUpper(cs, absorb_upp) == SeqSum([i \in 1..Len(cs) |-> cs[i][3]]) + absorb_upp
CountsAdmitDistribution(cs, absorb_low, absorb_upp) ==
    /\ SumLower(cs, absorb_low) <= Nsamples
    /\ SumUpper(cs, absorb_upp) >= Nsamples

\* C28: in interval mode every cluster adds its size to at most one lower
\* count and to at least one upper count of the emitted buckets, so the lower
\* counts sum to at most N and the upper counts to at least N.
C28_CountsAdmitDistribution ==
    pc = "build_iMDP" =>
        \A a \in DOMAIN prob :
            CountsAdmitDistribution(counts(indexed(error_args(a))),
                                    counts_absorb_low(indexed(error_args(a))),
                                    counts_absorb_upp(indexed(error_args(a))))

(***************************************************************************)
(* The whole pipeline, from the state define_target_points leaves          *)
(***************************************************************************)
\* what enabledActionsImprecise can return for subsystem z: for some action
\* keys, a non-empty set of enabled state tuples
SubInvChoices(z) ==
    LET t0 == SubTuple(z, 0)
        t1 == SubTuple(z, 1)
    IN  { << >>,
          (t0 :> {t0}),
          (t0 :> {t0, t1}),
          (t1 :> {t1}),
          (t0 :> {t1}) @@ (t1 :> {t0, t1}),
          (t0 :> {t0, t1}) @@ (t1 :> {t0, t1}) }

\* the control error enabledActionsImprecise returns for the action keys
SubErrors(z) ==
    [k \in SubTuples(z) |->
        [neg |-> <<-(1 + k[dim_n[z][1]])>>, pos |-> <<z + k[dim_n[z][1]]>>]]

\* what LP_vertices_contained can find feasible, per extra action
LPChoices ==
    { [a \in ExtraActs |-> {}],
      [a \in ExtraActs |-> IF a = extra_act[1] THEN {1, nr_regions - 1} ELSE {}],
      [a \in ExtraActs |-> IF a = extra_act[1] THEN {} ELSE Regions],
      [a \in ExtraActs |-> Regions] }

Init ==
    /\ pc = "define_actions"
    /\ goal \in {{}, {nr_regions - 1}}
    /\ critical \in {{}, {0}, {1, nr_regions - 1}}
    /\ enabled_sub_inv \in {inv \in [Subsystems -> UNION {SubInvChoices(z) : z \in Subsystems}] :
                              \A z \in Subsystems : inv[z] \in SubInvChoices(z)}
    /\ control_error_sub = [z \in Subsystems |-> SubErrors(z)]
    /\ lp_feasible \in LPChoices
    /\ parametric \in BOOLEAN
    /\ Q_uncertain \in BOOLEAN
    /\ ~(parametric /\ Q_uncertain)
    /\ actions_enabled = [s \in Regions |-> {}]
    /\ enabled_in = [a \in ActionIdxs |-> {}]
    /\ act_error = [a \in ActionIdxs |-> NoError]
    /\ nr_act = 0
    /\ runs = 0
    /\ first_run = << >>
    /\ mdp_actions = << >>
    /\ noise_pool = { <<0, 0>> }
    /\ table_pool = {TableBracket}
    /\ table_file = TRUE
    /\ memory = NoTable
    /\ confidence = 10000
    /\ max_radius = 2
    /\ samples = << >>
    /\ remaining_samples = << >>
    /\ remaining_samples_i = << >>
    /\ clusters0 = << >>
    /\ todo = << >>
    /\ prob = << >>
    /\ prob_sparse = << >>
    /\ SolveIdle

Next ==
    \/ DefineActions
    \/ NextProb
    \/ BuildIMDP

Spec == Init /\ [][Next]_vars

(***************************************************************************)
(* Properties of the pipeline (checked under Spec)                         *)
(***************************************************************************)
\* no action is enabled in any region
NothingEnabled == \A a \in ActionIdxs : enabled_in[a] = {}

\* C5: when define_actions has run and no action is enabled in any region,
\* the process has exited; once exited nothing runs any more, so no later
\* stage is reached and define_actions is not tried again.
C5_InfeasibleExits ==
    /\ [](runs >= 1 /\ NothingEnabled => pc = "exit")
    /\ [][pc = "exit" => pc' = "exit" /\ UNCHANGED vars]_vars

\* C5 witness: the run has exited although every subsystem had action keys
\* with enabled tuples: all composed regions were critical
C5_Witness ==
    /\ pc = "exit"
    /\ runs = 1
    /\ NothingEnabled
    /\ \A z \in Subsystems : DOMAIN enabled_sub_inv[z] # {}

\* C6: no action, composed or extra, is enabled in a critical region.
C6_CriticalDisabled ==
    \A s \in critical :
        /\ actions_enabled[s] = {}
        /\ \A a \in ActionIdxs : s \notin enabled_in[a]

\* the projection of a grid-tuple on the dimensions of subsystem z
proj(z, t) ==
    [d \in Dims |-> IF \E j \in 1..Len(dim_n[z]) : dim_n[z][j] = d THEN t[d] ELSE 0]

\* the part of default action a in every subsystem is an action key of it,
\* and the part of region s in every subsystem is enabled for that key
ProductEnabled(a, s) ==
    \A z \in Subsystems :
        /\ proj(z, R_tup(a)) \in DOMAIN enabled_sub_inv[z]
        /\ proj(z, R_tup(s)) \in enabled_sub_inv[z][proj(z, R_tup(a))]

\* C6 witness: define_actions has run, and a critical region would be
\* enabled for a composed action and has a feasible LP for an extra action,
\* while other regions have actions enabled
C6_Witness ==
    /\ runs >= 1
    /\ ~NothingEnabled
    /\ \E s \in critical :
          /\ \E a \in DefaultActs : ProductEnabled(a, s)
          /\ \E a \in ExtraActs : s \in lp_feasible[a]

\* C7: the actions structure handed to the MDP builder has no enabled action
\* in a goal region.
C7_GoalTerminal ==
    pc = "solve_iMDP" =>
        \A s \in goal :
            /\ mdp_actions.enabled[s] = {}
            /\ \A a \in ActionIdxs : s \notin mdp_actions.enabled_in[a]

\* C8: after define_actions every composed (default) action is enabled in
\* exactly the non-critical regions whose grid-tuple is made of one enabled
\* tuple of every subsystem for the action's key in that subsystem, the
\* action being the one whose grid-tuple is made of those keys.
C8_CartesianComposition ==
    runs >= 1 =>
        \A a \in DefaultActs :
            /\ enabled_in[a] = {s \in Regions \ critical : ProductEnabled(a, s)}
            /\ \A s \in Regions : a \in actions_enabled[s] <=> s \in enabled_in[a]

\* C8 witness: a composed action is enabled in several regions, and a
\* critical region of its product has been left out
C8_Witness ==
    /\ runs >= 1
    /\ \E a \in DefaultActs :
          /\ Cardinality(enabled_in[a]) >= 2
          /\ \E s \in critical : ProductEnabled(a, s)
          /\ \E b \in DefaultActs : b # a /\ enabled_in[b] # {} /\ enabled_in[b] # enabled_in[a]

\* C9: after a second run of define_actions on unchanged inputs every
\* action has the enabled_in set and the error of the first run, and every
\* region the same set of enabled actions.
C9_RerunSame ==
    runs >= 2 =>
        /\ first_run.enabled_in = enabled_in
        /\ first_run.error = act_error
        /\ first_run.enabled = actions_enabled

\* C9 witness: define_actions has run twice with composed and extra actions
\* enabled, with an error that depends on the enabled regions
C9_Witness ==
    /\ runs = 2
    /\ parametric
    /\ \E a \in DefaultActs : enabled_in[a] # {}
    /\ \E a \in ExtraActs : enabled_in[a] # {}

\* C23: every extra action carries a negative number as its tuple, and every
\* default action a grid-tuple without negative entries, so that every extra
\* action is told apart from the default actions by the sign.
C23_ExtraActionsNegativeTuple ==
    \A a \in DOMAIN enabled_in :
        /\ a \in ExtraActs => act_tup(a) < 0
        /\ a \in DefaultActs => \A d \in Dims : act_tup(a)[d] >= 0

\* C29: after define_actions has run, once or several times, a region s is
\* in the enabled_in set of an action a exactly when a is in the set of
\* actions enabled in s.
C29_EnabledConsistent ==
    runs >= 1 =>
        \A a \in ActionIdxs : \A s \in Regions :
            s \in enabled_in[a] <=> a \in actions_enabled[s]

\* C29 witness: define_actions has run twice and has enabled a composed and
\* an extra action
C29_Witness ==
    /\ runs >= 2
    /\ \E a \in DefaultActs : enabled_in[a] # {}
    /\ \E a \in ExtraActs : enabled_in[a] # {}
    /\ \E s \in Regions : actions_enabled[s] = {}

\* C30: define_actions does not end the process when it leaves at least one
\* action enabled in some region, an extra action included.
C30_ExitOnlyWhenNothingEnabled ==
    [][(runs' = runs + 1 /\ \E a \in ActionIdxs : enabled_in'[a] # {}) => pc' # "exit"]_vars

(***************************************************************************)
(* The solver stage: solve_iMDP runs the external solver and loads its two *)
(* output files.  A cell of the policy file is a sequence of characters,   *)
(* the empty sequence for an empty field; the value file is a sequence of  *)
(* numbers (numerators over One).                                          *)
(***************************************************************************)
\* an empty field, read by pandas as NaN
NaN == << >>
Underscore == "_"
Digits == << "0", "1", "2", "3", "4", "5", "6", "7", "8", "9" >>

\* str.split('_')
IndexOfUnderscore(chars) ==
    IF \E k \in 1..Len(chars) : chars[k] = Underscore
    THEN CHOOSE k \in 1..Len(chars) :
            chars[k] = Underscore /\ \A l \in 1..(k - 1) : chars[l] # Underscore
    ELSE 0
RECURSIVE split(_)
split(chars) ==
    IF IndexOfUnderscore(chars) = 0 THEN << chars >>
    ELSE << SubSeq(chars, 1, IndexOfUnderscore(chars) - 1) >>
         \o split(SubSeq(chars, IndexOfUnderscore(chars) + 1, Len(chars)))

\* int(text) of a decimal numeral; anything else raises ValueError
IsNumeral(text) ==
    Len(text) > 0 /\ \A k \in 1..Len(text) : \E v \in 1..Len(Digits) : Digits[v] = text[k]
DigitValue(ch) == (CHOOSE v \in 1..Len(Digits) : Digits[v] = ch) - 1
RECURSIVE int(_)
int(text) ==
    IF Len(text) = 0 THEN 0
    ELSE 10 * int(SubSeq(text, 1, Len(text) - 1)) + DigitValue(text[Len(text)])

\* .iloc[:, 3:] of the policy table and .iloc[3:] of the value column
drop3(q) == SubSeq(q, 4, Len(q))
\* .fillna(-1): an entry of the table is then the number -1 or a string
MinusOne == [number |-> -1, str |-> << >>]
fillna(cell) == IF cell = NaN THEN MinusOne ELSE [number |-> 0, str |-> cell]
\* a variant of the line below that keeps the order of the rows
flipud_not(rows) == Force([i \in 1..Len(rows) |-> rows[i]])
\* np.flipud
flipud(rows) == Force([i \in 1..Len(rows) |-> rows[Len(rows) + 1 - i]])

\* policy_all: the table without its first three columns, empty fields
\* filled with -1, rows reversed
policy_all_of(file) ==
    flipud([i \in 1..Len(file) |->
              Force([j \in 1..Len(drop3(file[i])) |-> fillna(drop3(file[i])[j])])])

\* the body of the double loop raises at this entry: value.split('_')[1] does
\* not exist (IndexError) or is no numeral (ValueError)
raises(value) ==
    value # MinusOne /\ (Len(split(value.str)) < 2 \/ ~IsNumeral(split(value.str)[2]))
\* the entry stored for a value that does not raise
policy_entry(value) ==
    IF value # MinusOne THEN int(split(value.str)[2]) ELSE value.number

\* position of entry (i, j) in the order of the double loop
loop_position(all, i, j) == (i - 1) * Len(all[1]) + j
\* the first position at which the loop raises, 0 if it runs to its end
first_raise(all) ==
    LET bad == { loop_position(all, x[1], x[2]) :
                   x \in {y \in (1..Len(all)) \X (1..Len(all[1])) :
                            raises(all[y[1]][y[2]])} }
    IN  IF bad = {} THEN 0 ELSE CHOOSE n \in bad : \A m \in bad : n <= m

\* results['optimal_policy']: zeros of the shape of policy_all, filled by
\* the loop up to the position `stop` (all of it for stop = 0)
optimal_policy_of(all, stop) ==
    Force([i \in 1..Len(all) |->
        Force([j \in 1..Len(all[i]) |->
            IF stop = 0 \/ loop_position(all, i, j) < stop
            THEN policy_entry(all[i][j]) ELSE 0])])

\* `if self.spec.problem_type:`: None is false, any name of a type is true
None == "None"
truthy(t) == t # None /\ t # ""

\* results['optimal_reward']
rewards_k0(file) == drop3(file)
optimal_reward_of(file, t) ==
    IF truthy(t)
    THEN Force([i \in 1..Len(rewards_k0(file)) |-> One - rewards_k0(file)[i]])
    ELSE rewards_k0(file)

results_of(all, stop, vfile, t) ==
    [ optimal_policy |-> optimal_policy_of(all, stop),
      optimal_reward |-> optimal_reward_of(vfile, t) ]

\* subprocess.Popen(command, shell=True).wait(): the solver writes its two
\* output files, or fails and leaves the files as they were; the return
\* code is not looked at
PolicyRowLabels == << NaN, << "a", "_", "0" >>, << "a", "_", "1", "2" >>,
                     << "a", "c", "t", "_", "3" >> >>
PolicyRow(width, k) ==
    Force([j \in 1..(3 + width) |-> PolicyRowLabels[((j + k) % Len(PolicyRowLabels)) + 1]])
PolicyTable(steps, width, k) == Force([i \in 1..steps |-> PolicyRow(width, k + i)])
\* a table with a label that has no underscore
PolicyTableBroken ==
    Force([i \in 1..Horizon |->
        Force([j \in 1..(3 + nr_regions) |->
            IF i = 1 /\ j = 3 + nr_regions THEN << "s", "t", "o", "p" >>
            ELSE << "a", "_", "1" >>])])
PolicyFiles ==
    { PolicyTable(steps, width, k) :
        steps \in {Horizon, Horizon + 1}, width \in {nr_regions, nr_regions + 1},
        k \in 0..1 } \cup {PolicyTableBroken}
VectorValues == << 0, FromMicro(250000), One >>
VectorColumn(n, k) ==
    Force([i \in 1..(3 + n) |-> VectorValues[((i + k) % Len(VectorValues)) + 1]])
VectorFiles == { VectorColumn(n, k) : n \in {nr_regions, nr_regions - 1}, k \in 0..1 }

RunPRISM ==
    /\ pc = "solve_iMDP"
    /\ \/ /\ \E p \in PolicyFiles : \E v \in VectorFiles :
                policy_file' = File(p) /\ vector_file' = File(v)
          /\ returncode' = 0
       \/ /\ UNCHANGED << policy_file, vector_file >>
          /\ returncode' = 1
    /\ pc' = "loadPRISMresults"
    /\ UNCHANGED << inputVars, actionVars, clusterVars, mdp_actions, memory, todo,
                    prob, prob_sparse, problem_type, results >>

\* loadPRISMresults: pd.read_csv raises when a file is missing; the loop
\* over the policy raises at a label it cannot parse, after optimal_reward
\* and a part of optimal_policy have been stored
LoadPRISMresults ==
    /\ pc = "loadPRISMresults"
    /\ IF ~policy_file.exists
       THEN results' = << >> /\ pc' = "error"
       ELSE IF ~vector_file.exists
       THEN /\ results' = [optimal_policy |->
                             optimal_policy_of(policy_all_of(policy_file.content), 1)]
            /\ pc' = "error"
       ELSE /\ results' = results_of(policy_all_of(policy_file.content),
                                     first_raise(policy_all_of(policy_file.content)),
                                     vector_file.content, problem_type)
            /\ pc' = IF first_raise(policy_all_of(policy_file.content)) = 0
                     THEN "solved" ELSE "error"
    /\ UNCHANGED << inputVars, actionVars, clusterVars, mdp_actions, memory, todo,
                    prob, prob_sparse, problem_type, policy_file, vector_file,
                    returncode >>

NextSolve ==
    \/ RunPRISM
    \/ LoadPRISMresults

\* declared problem types
ProblemTypes == {"avoid", "reachavoid", None}

\* the solver stage on its own: the model has been built, the output files
\* are absent or left from an earlier run
InitSolve ==
    /\ pc = "solve_iMDP"
    /\ goal = {nr_regions - 1}
    /\ critical = {0}
    /\ enabled_sub_inv = << >>
    /\ control_error_sub = << >>
    /\ lp_feasible = << >>
    /\ parametric = FALSE
    /\ Q_uncertain = FALSE
    /\ actions_enabled = [s \in Regions |-> {a \in ActionIdxs : s \in ProbEnabledIn[a]}]
    /\ enabled_in = ProbEnabledIn
    /\ act_error = [a \in ActionIdxs |-> NoError]
    /\ nr_act = Cardinality({a \in ActionIdxs : ProbEnabledIn[a] # {}})
    /\ runs = 1
    /\ first_run = << >>
    /\ mdp_actions = [enabled |-> actions_enabled, enabled_in |-> enabled_in]
    /\ noise_pool = NoisePoints
    /\ table_pool = Tables
    /\ table_file = TRUE
    /\ memory = TableBracket
    /\ confidence \in Confidences
    /\ max_radius = 0
    /\ samples = << >>
    /\ remaining_samples = << >>
    /\ remaining_samples_i = << >>
    /\ clusters0 = << >>
    /\ todo = << >>
    /\ prob = << >>
    /\ prob_sparse = << >>
    /\ problem_type \in ProblemTypes
    /\ \/ policy_file = NoFile /\ vector_file = NoFile
       \/ policy_file = File(PolicyTable(Horizon, nr_regions, 0))
          /\ vector_file = File(VectorColumn(nr_regions, 0))
    /\ results = NoResults
    /\ returncode = 0

SpecSolve == InitSolve /\ [][NextSolve]_vars

(***************************************************************************)
(* Properties of the solver stage (checked under SpecSolve)                *)
(***************************************************************************)
\* the decimal numeral of a natural number
RECURSIVE Decimal(_)
Decimal(n) ==
    IF n < 10 THEN << Digits[n + 1] >>
    ELSE Decimal(n \div 10) \o << Digits[(n % 10) + 1] >>
\* the part of a label after its first underscore
AfterFirstUnderscore(label) ==
    SubSeq(label, IndexOfUnderscore(label) + 1, Len(label))
\* the entry stored for a field of the solver's table
EntryIs(field, entry) ==
    /\ entry = -1 <=> field = NaN
    /\ field # NaN => /\ entry >= 0
                      /\ IndexOfUnderscore(field) > 0
                      /\ AfterFirstUnderscore(field) = Decimal(entry)
PolicyIs(table, policy) ==
    /\ Len(policy) = Len(table)
    /\ \A i \in 1..Len(policy) :
          /\ Len(policy[i]) = Len(table[i]) - 3
          /\ \A j \in 1..Len(policy[i]) :
                EntryIs(table[Len(table) + 1 - i][j + 3], policy[i][j])

\* C18: the stored optimal_policy has the shape of the solver's policy
\* table without its first three columns, with the order of the rows
\* reversed; each entry is the number after the underscore of the solver's
\* label, or -1 exactly where the solver's field is empty.
C18_PolicyParsed ==
    pc = "solved" => PolicyIs(policy_file.content, results.optimal_policy)

\* C18 witness: a table of several different rows with an empty field and a
\* two-digit action number has been loaded
C18_Witness ==
    /\ pc = "solved"
    /\ Len(results.optimal_policy) >= 2
    /\ results.optimal_policy[1] # results.optimal_policy[Len(results.optimal_policy)]
    /\ \E i \in 1..Len(results.optimal_policy) :
          /\ \E j \in 1..Len(results.optimal_policy[i]) : results.optimal_policy[i][j] = -1
          /\ \E j \in 1..Len(results.optimal_policy[i]) : results.optimal_policy[i][j] = 12

\* the objective whose value is an avoid probability
requires_conversion(t) == t = "avoid"
RewardIs(column, t, reward) ==
    /\ Len(reward) = Len(column) - 3
    /\ \A i \in 1..Len(reward) :
          reward[i] = IF requires_conversion(t) THEN One - column[i + 3]
                      ELSE column[i + 3]

\* C19: the stored value of every state is 1 minus the solver's value
\* exactly when the declared problem type is the avoid objective, and the
\* solver's value for every other declared problem type.
C19_ConversionByType ==
    pc = "solved" => RewardIs(vector_file.content, problem_type, results.optimal_reward)

\* the stored results have the dimensions of the abstraction: one row per
\* time step, one column and one value per region
DimensionsMatch(r) ==
    /\ Len(r.optimal_policy) = Horizon
    /\ \A i \in 1..Len(r.optimal_policy) : Len(r.optimal_policy[i]) = nr_regions
    /\ Len(r.optimal_reward) = nr_regions

\* C20: solver output whose dimensions do not match the region count and
\* the time horizon is rejected: what loadPRISMresults stores has one row
\* per time step and one entry per region.
C20_DimensionsValidated ==
    pc = "solved" => DimensionsMatch(results)

\* C21: a failure of the external solver is fatal for the run: when the
\* process has ended with a failure, no optimal_policy and no optimal_reward
\* are stored, in particular none read from files of an earlier invocation.
C21_SolverFailureFatal ==
    returncode # 0 => results = NoResults

=============================================================================
